---- MODULE Spec2Model ----
(***************************************************************************)
(* Zeitig: the background command-processing worker of                     *)
(* src/src/controller/backend.rs (BackendController), the mpsc command     *)
(* channel between the UI thread and the worker thread, the druid event    *)
(* sink the worker posts to, and the part of the UI state (TimeTable,      *)
(* src/src/state.rs) the controller reads when it builds AddSession.       *)
(*                                                                         *)
(* Two threads: the UI thread (lifecycle, event, tick, the drop of the      *)
(* controller) and the worker thread spawned by init.  Every blocking point*)
(* of the worker (recv, each backend call) is a position of wpc, so that UI*)
(* steps interleave with a backend call in progress.  A panic of the UI    *)
(* thread ends the UI's part of the run.                                   *)
(***************************************************************************)
EXTENDS Integers, Sequences, FiniteSets, TLC

\* ------------------------------------------------------------------ bounds
MaxCmds == 3        \* commands the UI enqueues in one run
MaxTime == 1        \* seconds the UI adds to the selected topic's total in one run
MaxFail == 1        \* worker-side backend calls that fail in one run

ActionNames == {"Reading", "Writing"}
SubjectNames == {"Math"}
Topics == ActionNames \X SubjectNames
Durations == {2}    \* session durations, in whole seconds

\* AppState.selected_action / selected_subject: the topic selected in the UI
\* during the run, the one whose total the time lens writes
SelectedTopic == <<"Reading", "Math">>

\* ------------------------------------------------------------------ state
VARIABLES
    uiPc,        \* UI thread: "idle" | "setup" (in init, setup() running) | "panicked" |
                 \* "send_panicked" (unwrap of a failed send) | "closed"
    sender,      \* BackendController.sender: "None" | "Some"
    queue,       \* commands in the mpsc channel, oldest first
    wpc,         \* worker thread: "none" | "recv" | a backend call | "break" | "exited" | "panicked"
    cmd,         \* the command the worker holds (result of recv)
    backend,     \* the persistent store behind the Backend trait
    sinkOpen,    \* FALSE once the UI side of the ExtEventSink is gone
    events,      \* the UI's event queue as filled through the sink: the order the UI observes
    time_table,  \* AppState.time_table: topic -> cumulative seconds (partial map)
    enq,         \* history: every command sent on the channel, in send order
    done,        \* history: every command the worker received, in receive order
    backendLog,  \* history: every finished backend call, as a test double records it
    data,        \* main.rs's AppState: active, history, selected_action, selected_subject;
                 \* an Option is a sequence of at most one element
    label        \* two SpentTime values, and what the UI shows and compares of them

vars == <<uiPc, sender, queue, wpc, cmd, backend, sinkOpen, events,
          time_table, enq, done, backendLog, data, label>>

\* the state of the session tracker and of the labels, which no step of the
\* backend controller or of its worker touches
aux == <<data, label>>

\* ------------------------------------------------------------ data model
\* enum BackendCommand
AddAction(name) == [type |-> "AddAction", name |-> name]
AddSubject(name) == [type |-> "AddSubject", name |-> name]
AddSession(session, total_duration) ==
    [type |-> "AddSession", session |-> session, total |-> total_duration]
Stop == [type |-> "Stop"]

\* Session, reduced to the two fields the controller and the worker use
Session(topic, duration) == [topic |-> topic, duration |-> duration]

\* mod msg: the selectors the worker posts to the sink
ACTION_ADDED(action) == [type |-> "ACTION_ADDED", payload |-> action]
SUBJECT_ADDED(subject) == [type |-> "SUBJECT_ADDED", payload |-> subject]
ERROR(message) == [type |-> "ERROR", payload |-> message]
STOPPED == [type |-> "STOPPED", payload |-> <<>>]

NoCmd == [type |-> "None"]

CallPcs == {"create_action", "create_subject", "add_session", "update_time"}
RunningPcs == {"recv"} \cup CallPcs

\* ---------------------------------------------------------------- helpers
Last(s) == s[Len(s)]

IsPrefix(s, t) == Len(s) <= Len(t) /\ SubSeq(t, 1, Len(s)) = s

\* TimeTable::get: the stored value, or SpentTime::default() (zero) when absent
get(tt, topic) == IF topic \in DOMAIN tt THEN tt[topic] ELSE 0

\* TimeTable::get_mut: entry(..).or_insert(default): the map with the entry present
get_mut(tt, topic) ==
    IF topic \in DOMAIN tt THEN tt
    ELSE [t \in DOMAIN tt \cup {topic} |-> IF t = topic THEN 0 ELSE tt[t]]

\* ---------------------------------------------------------------- backend
\* The Backend trait's implementation (state::backend::Sqlite) is not among
\* the sources; modelled from the backend contract.  Each call may fail; a
\* failed call leaves the store unchanged.
EmptyBackend == [actions |-> {}, subjects |-> {}, sessions |-> <<>>, times |-> <<>>]

create_action(b, name) == [b EXCEPT !.actions = @ \cup {name}]
create_subject(b, name) == [b EXCEPT !.subjects = @ \cup {name}]
add_session(b, session) == [b EXCEPT !.sessions = Append(@, session)]
update_time(b, topic, total) ==
    [b EXCEPT !.times = [t \in DOMAIN @ \cup {topic} |-> IF t = topic THEN total ELSE @[t]]]

\* what the test double records for one finished call
Call(op, arg, thread, ok, n) == [op |-> op, arg |-> arg, thread |-> thread, ok |-> ok, n |-> n]

\* the message of the error a failed backend call returns
ErrMsg(op, arg) == <<op, arg>>

\* fault injection: the outcomes a worker-side backend call may have
Failures == Cardinality({i \in DOMAIN backendLog :
                            backendLog[i].thread = "worker" /\ ~backendLog[i].ok})
Outcomes == IF Failures < MaxFail THEN BOOLEAN ELSE {TRUE}

\* backend operations in progress, by thread
InCall ==
    (IF wpc \in CallPcs THEN {[thread |-> "worker", op |-> wpc]} ELSE {})
    \cup (IF uiPc = "setup" THEN {[thread |-> "ui", op |-> "setup"]} ELSE {})

\* a receiver that is dropped as soon as the loop is left
ReceiverAliveInLoop == wpc \in RunningPcs

\* the receiving end of the channel lives in the worker closure
ReceiverAlive == wpc \in RunningPcs \cup {"break"}

\* AppState::default(): nothing selected, no active interval, no history
DefaultData ==
    [active |-> <<>>, history |-> <<>>,
     selected_action |-> <<>>, selected_subject |-> <<>>]

\* no label rendered
NoLabel == [a |-> 0, b |-> 0, text |-> <<>>, same |-> <<>>]

\* the controller before WidgetAdded
ControllerInit ==
    /\ uiPc = "idle"
    /\ sender = "None"
    /\ queue = <<>>
    /\ wpc = "none"
    /\ cmd = NoCmd
    /\ backend = EmptyBackend
    /\ sinkOpen = TRUE
    /\ events = <<>>
    /\ time_table = <<>>
    /\ enq = <<>>
    /\ done = <<>>
    /\ backendLog = <<>>

Init ==
    /\ ControllerInit
    /\ data = DefaultData
    /\ label = NoLabel

\* ============================================================== UI thread

\* init without its assertion
InitGuardAlways(s) == TRUE

\* the assertion at the head of init
InitGuard(s) == s = "None"

\* a startup that goes on whatever the backend returned
unwrap_ignored(ok) == TRUE

\* Result::unwrap in init: init goes on when the result is Ok and panics on Err
unwrap(ok) == ok

\* Controller::lifecycle, LifeCycle::WidgetAdded: init up to the call of
\* backend.setup().  assert!(self.sender.is_none()) and Sqlite::new(..).unwrap()
\* panic on the UI thread.  Every other lifecycle event only reaches the child.
lifecycle ==
    /\ uiPc = "idle"
    /\ IF ~InitGuard(sender)
       THEN /\ uiPc' = "panicked"
            /\ UNCHANGED backendLog
       ELSE \E ok \in BOOLEAN :
            /\ backendLog' = Append(backendLog, Call("new", <<>>, "ui", ok, 0))
            /\ uiPc' = IF unwrap(ok) THEN "setup" ELSE "panicked"
    /\ UNCHANGED <<sender, queue, wpc, cmd, backend, sinkOpen, events,
                   time_table, enq, done>>
    /\ UNCHANGED aux

\* init from the return of backend.setup(): unwrap, thread::spawn, sender = Some
init_setup_return ==
    /\ uiPc = "setup"
    /\ \E ok \in BOOLEAN :
        /\ backendLog' = Append(backendLog, Call("setup", <<>>, "ui", ok, 0))
        /\ IF unwrap(ok)
           THEN /\ uiPc' = "idle"
                /\ wpc' = "recv"
                /\ sender' = "Some"
           ELSE /\ uiPc' = "panicked"
                /\ UNCHANGED <<wpc, sender>>
    /\ UNCHANGED <<queue, cmd, backend, sinkOpen, events, time_table, enq, done>>
    /\ UNCHANGED aux

\* Sender::send(c).unwrap(): appends to the channel; Err when the receiver is
\* gone, and the unwrap then panics on the UI thread
send(c) ==
    IF ReceiverAlive
    THEN /\ queue' = Append(queue, c)
         /\ enq' = Append(enq, c)
         /\ UNCHANGED uiPc
    ELSE /\ uiPc' = "send_panicked"
         /\ UNCHANGED <<queue, enq>>

\* the total without the past duration
total_duration_session_only(tt, session) == session.duration

\* the total the controller puts into AddSession
total_duration(tt, session) == get(tt, session.topic) + session.duration

\* the commands druid delivers to the controller: selector and payload
UiEvents ==
    [sel : {"ADD_ACTION"}, arg : ActionNames]
    \cup [sel : {"ADD_SUBJECT"}, arg : SubjectNames]
    \cup [sel : {"ADD_SESSION"}, arg : {Session(t, d) : t \in Topics, d \in Durations}]
    \cup [sel : {"STOP"}, arg : {<<>>}]

\* Controller::event, the four branches that send; druid delivers events to the
\* controller only after WidgetAdded, hence with a sender.  Events no branch
\* matches only reach the child.
event(ev) ==
    /\ uiPc = "idle"
    /\ sender = "Some"
    /\ CASE ev.sel = "ADD_ACTION" -> send(AddAction(ev.arg))
         [] ev.sel = "ADD_SUBJECT" -> send(AddSubject(ev.arg))
         [] ev.sel = "ADD_SESSION" ->
                send(AddSession(ev.arg, total_duration(time_table, ev.arg)))
         [] ev.sel = "STOP" -> send(Stop)
    /\ UNCHANGED <<sender, wpc, cmd, backend, sinkOpen, events, time_table,
                   done, backendLog>>
    /\ UNCHANGED aux

\* any request, while the run's budget of commands lasts
ui_event == \E ev \in UiEvents : Len(enq) < MaxCmds /\ event(ev)

\* the requests of the ordering scenario, in the scenario's order
Scenario ==
    << [sel |-> "ADD_ACTION", arg |-> "Reading"],
       [sel |-> "ADD_SUBJECT", arg |-> "Math"],
       [sel |-> "ADD_SESSION", arg |-> Session(<<"Reading", "Math">>, 2)],
       [sel |-> "STOP", arg |-> <<>>] >>

scenario_event == Len(enq) < Len(Scenario) /\ event(Scenario[Len(enq) + 1])

\* SpendTimeLens::with_mut on the selected topic (get_mut creates the entry):
\* the UI adds one second to the topic's total
tick ==
    /\ uiPc = "idle"
    /\ get(time_table, SelectedTopic) < MaxTime
    /\ time_table' = [get_mut(time_table, SelectedTopic) EXCEPT ![SelectedTopic] = @ + 1]
    /\ UNCHANGED <<uiPc, sender, queue, wpc, cmd, backend, sinkOpen, events,
                   enq, done, backendLog>>
    /\ UNCHANGED aux

\* the BackendController is dropped with its widget: the only Sender goes away
drop_controller ==
    /\ uiPc = "idle"
    /\ sender = "Some"
    /\ sender' = "None"
    /\ uiPc' = "closed"
    /\ UNCHANGED <<queue, wpc, cmd, backend, sinkOpen, events, time_table,
                   enq, done, backendLog>>
    /\ UNCHANGED aux

\* the application behind the ExtEventSink goes away: submit_command fails from now on
close_sink ==
    /\ sinkOpen
    /\ wpc # "none"
    /\ sinkOpen' = FALSE
    /\ UNCHANGED <<uiPc, sender, queue, wpc, cmd, backend, events, time_table,
                   enq, done, backendLog>>
    /\ UNCHANGED aux

\* ========================================================== worker thread

\* a channel that hands out its newest command
RecvCmdNewest(q) == q[Len(q)]

\* a channel that drops the command behind the one it hands out
RecvRestSkip(q) == IF Len(q) > 1 THEN Tail(Tail(q)) ELSE Tail(q)

\* what receiver.recv() hands out, and what it leaves in the channel
RecvCmd(q) == Head(q)
RecvRest(q) == Tail(q)

\* a loop that treats the closed channel like Stop
RecvErrBreak == "break"

\* where the worker goes when recv() returns Err (no sender left, channel
\* empty): .expect(..) panics and unwinds the thread
RecvErrPc == "panicked"


\* ExtEventSink::submit_command: Ok and the event is queued for the UI thread,
\* or Err once the sink is closed
submit_command(q, ev) == IF sinkOpen THEN Append(q, ev) ELSE q

\* a loop that gives up on the first failed command
OnResultFatal(result, message) ==
    CASE result = "Yes" -> [pc |-> "recv", events |-> events]
      [] result = "No" -> [pc |-> "break", events |-> events]
      [] result = "Err" -> [pc |-> "break",
                            events |-> submit_command(events, ERROR(message))]

\* a closure that returns, in place of the break, when the ERROR event could
\* not be posted
OnResultReturns(result, message) ==
    CASE result = "Yes" -> [pc |-> "recv", events |-> events]
      [] result = "No" -> [pc |-> "break", events |-> events]
      [] result = "Err" -> [pc |-> IF sinkOpen THEN "recv" ELSE "exited",
                            events |-> submit_command(events, ERROR(message))]

\* a loop that goes on after the ERROR event could not be posted
OnResultIgnoreSink(result, message) ==
    CASE result = "Yes" -> [pc |-> "recv", events |-> events]
      [] result = "No" -> [pc |-> "break", events |-> events]
      [] result = "Err" -> [pc |-> "recv",
                            events |-> submit_command(events, ERROR(message))]

\* the match on handle_command's result in the worker loop: the position the
\* worker continues at and the sink queue it leaves
\*   Ok(Continue::Yes) => {}    Ok(Continue::No) => break
\*   Err(err) => submit ERROR; break if that fails
OnResult(result, message) ==
    CASE result = "Yes" -> [pc |-> "recv", events |-> events]
      [] result = "No" -> [pc |-> "break", events |-> events]
      [] result = "Err" -> [pc |-> IF sinkOpen THEN "recv" ELSE "break",
                            events |-> submit_command(events, ERROR(message))]

\* a failed post of the success event that is dropped: the loop goes on
OnCreatedIgnoresSink(ev) ==
    [pc |-> "recv", events |-> submit_command(events, ev)]

\* handle_command without the success events
OnCreatedSilent(ev) == [pc |-> "recv", events |-> events]

\* handle_command after create_action / create_subject returned Ok: the success
\* event is posted with `?`, so a closed sink turns the result into Err
OnCreated(ev) ==
    IF sinkOpen
    THEN [pc |-> "recv", events |-> submit_command(events, ev)]
    ELSE OnResult("Err", <<"submit_command", ev.type>>)

\* the session's own duration in place of the carried total
UpdateTimeArgDelta(c) == c.session.duration

\* the value handle_command passes to update_time
UpdateTimeArg(c) == c.total

\* a Stop that lets the loop go on
HandlePcStopContinues(c) ==
    CASE c.type = "AddAction" -> "create_action"
      [] c.type = "AddSubject" -> "create_subject"
      [] c.type = "AddSession" -> "add_session"
      [] c.type = "Stop" -> "recv"

\* handle_command, the match on cmd: Stop returns Ok(Continue::No) without a
\* backend call, every other command enters its first backend call
HandlePc(c) ==
    CASE c.type = "AddAction" -> "create_action"
      [] c.type = "AddSubject" -> "create_subject"
      [] c.type = "AddSession" -> "add_session"
      [] c.type = "Stop" -> OnResult("No", <<>>).pc

\* receiver.recv(), which blocks while the channel is empty and a sender
\* exists, and the entry of handle_command with the command received
recv ==
    /\ wpc = "recv"
    /\ IF queue # <<>>
       THEN /\ cmd' = RecvCmd(queue)
            /\ queue' = RecvRest(queue)
            /\ done' = Append(done, RecvCmd(queue))
            /\ wpc' = HandlePc(RecvCmd(queue))
       ELSE /\ sender = "None"
            /\ wpc' = RecvErrPc
            /\ UNCHANGED <<cmd, queue, done>>
    /\ UNCHANGED <<uiPc, sender, backend, sinkOpen, events, time_table,
                   enq, backendLog>>
    /\ UNCHANGED aux

\* backend.create_action(&name)? returns; sink.submit_command(ACTION_ADDED)?
create_action_return ==
    /\ wpc = "create_action"
    /\ \E ok \in Outcomes :
        LET next == IF ok THEN OnCreated(ACTION_ADDED(cmd.name))
                    ELSE OnResult("Err", ErrMsg("create_action", cmd.name))
        IN  /\ backendLog' = Append(backendLog,
                                    Call("create_action", cmd.name, "worker", ok, Len(done)))
            /\ backend' = IF ok THEN create_action(backend, cmd.name) ELSE backend
            /\ wpc' = next.pc
            /\ events' = next.events
    /\ UNCHANGED <<uiPc, sender, queue, cmd, sinkOpen, time_table, enq, done>>
    /\ UNCHANGED aux

\* backend.create_subject(&name)? returns; sink.submit_command(SUBJECT_ADDED)?
create_subject_return ==
    /\ wpc = "create_subject"
    /\ \E ok \in Outcomes :
        LET next == IF ok THEN OnCreated(SUBJECT_ADDED(cmd.name))
                    ELSE OnResult("Err", ErrMsg("create_subject", cmd.name))
        IN  /\ backendLog' = Append(backendLog,
                                    Call("create_subject", cmd.name, "worker", ok, Len(done)))
            /\ backend' = IF ok THEN create_subject(backend, cmd.name) ELSE backend
            /\ wpc' = next.pc
            /\ events' = next.events
    /\ UNCHANGED <<uiPc, sender, queue, cmd, sinkOpen, time_table, enq, done>>
    /\ UNCHANGED aux

\* add_session's result dropped: update_time is called whatever it was
AfterAddSessionUnchecked(ok, message) == [pc |-> "update_time", events |-> events]

\* the ? on backend.add_session(&session): Ok goes on to update_time, Err
\* returns from handle_command with the error
AfterAddSession(ok, message) ==
    IF ok THEN [pc |-> "update_time", events |-> events]
    ELSE OnResult("Err", message)

\* backend.add_session(&session)? returns; on Ok the worker enters update_time
add_session_return ==
    /\ wpc = "add_session"
    /\ \E ok \in Outcomes :
        LET next == AfterAddSession(ok, ErrMsg("add_session", cmd.session))
        IN  /\ backendLog' = Append(backendLog,
                                    Call("add_session", cmd.session, "worker", ok, Len(done)))
            /\ backend' = IF ok THEN add_session(backend, cmd.session) ELSE backend
            /\ wpc' = next.pc
            /\ events' = next.events
    /\ UNCHANGED <<uiPc, sender, queue, cmd, sinkOpen, time_table, enq, done>>
    /\ UNCHANGED aux

\* backend.update_time(&session.topic, &total_duration)? returns; Ok(Continue::Yes)
update_time_return ==
    /\ wpc = "update_time"
    /\ \E ok \in Outcomes :
        LET arg == <<cmd.session.topic, UpdateTimeArg(cmd)>>
            next == IF ok THEN OnResult("Yes", <<>>)
                    ELSE OnResult("Err", ErrMsg("update_time", arg))
        IN  /\ backendLog' = Append(backendLog,
                                    Call("update_time", arg, "worker", ok, Len(done)))
            /\ backend' = IF ok THEN update_time(backend, arg[1], arg[2]) ELSE backend
            /\ wpc' = next.pc
            /\ events' = next.events
    /\ UNCHANGED <<uiPc, sender, queue, cmd, sinkOpen, time_table, enq, done>>
    /\ UNCHANGED aux

\* after the loop: sink.submit_command(STOPPED), a failure is only logged; the
\* closure returns and the thread exits
submit_stopped ==
    /\ wpc = "break"
    /\ events' = submit_command(events, STOPPED)
    /\ wpc' = "exited"
    /\ UNCHANGED <<uiPc, sender, queue, cmd, backend, sinkOpen, time_table,
                   enq, done, backendLog>>
    /\ UNCHANGED aux

\* ========================================================== specification
WorkerNext ==
    \/ recv
    \/ create_action_return
    \/ create_subject_return
    \/ add_session_return
    \/ update_time_return
    \/ submit_stopped

EnvNext ==
    \/ lifecycle
    \/ init_setup_return
    \/ tick
    \/ drop_controller
    \/ close_sink

Next == ui_event \/ EnvNext \/ WorkerNext

Spec == Init /\ [][Next]_vars

\* the UI issues the scenario's requests; worker and environment as in Spec
ScenarioNext == scenario_event \/ EnvNext \/ WorkerNext

ScenarioSpec == Init /\ [][ScenarioNext]_vars

\* the worker is a thread of its own: the operating system keeps scheduling it
\* while it has a step to take (a command to receive, a call to return from,
\* the loop to leave)
\* the controller and its worker with the UI's clock standing still: no step
\* of the worker or of init reads the time table
ShutdownNext ==
    \/ ui_event
    \/ lifecycle
    \/ init_setup_return
    \/ drop_controller
    \/ close_sink
    \/ WorkerNext

FairSpec == Init /\ [][ShutdownNext]_vars /\ WF_vars(WorkerNext)

\* ======================================================= session tracker
\* main.rs: the Start/Stop button and the selection commands open and close
\* the active interval.  A Duration is a count of milliseconds; the timestamps
\* started and ended of a session are left out.

\* bounds of the tracker's runs: the longest interval, the longest history
MaxSessionSecs == 31
MaxHistory == 2

\* the least duration, in seconds, above which a closed interval is recorded
MinSessionSecs == 30

\* the steps by which the ticker advances the active interval
TickSteps == {500, 15000}

from_secs(secs) == secs * 1000
as_secs(duration) == duration \div 1000

\* struct Session of main.rs
HistorySession(action, subject, duration) ==
    [action |-> action, subject |-> subject, duration |-> duration]

\* every closed interval is recorded
recorded_always(duration) == TRUE

\* the test of end_session: *active.duration > Duration::from_secs(30)
recorded(duration) == duration > from_secs(MinSessionSecs)

\* end_session: takes the active interval, if there is one, and pushes a
\* session for it when it is long enough; the unwrap of a missing selection
\* panics, after the interval was taken
end_session(d) ==
    IF d.active = <<>>
    THEN [data |-> d, panic |-> FALSE]
    ELSE LET active == d.active[1]
             taken == [d EXCEPT !.active = <<>>]
         IN  IF recorded(active.duration)
             THEN IF d.selected_action = <<>> \/ d.selected_subject = <<>>
                  THEN [data |-> taken, panic |-> TRUE]
                  ELSE [data |-> [taken EXCEPT !.history =
                                    Append(@, HistorySession(d.selected_action[1],
                                                             d.selected_subject[1],
                                                             active.duration))],
                        panic |-> FALSE]
             ELSE [data |-> taken, panic |-> FALSE]

\* start_new_session: a fresh active interval of duration zero
start_new_session(d) == [d EXCEPT !.active = <<[duration |-> 0]>>]

controller_vars == <<sender, queue, wpc, cmd, backend, sinkOpen, events,
                     time_table, enq, done, backendLog>>

\* the Start/Stop button's on_click
click ==
    /\ uiPc = "idle"
    /\ IF data.active # <<>>
       THEN LET r == end_session(data)
            IN  /\ data' = r.data
                /\ uiPc' = IF r.panic THEN "panicked" ELSE "idle"
       ELSE /\ Len(data.history) < MaxHistory
            /\ data' = start_new_session(data)
            /\ UNCHANGED uiPc
    /\ UNCHANGED <<controller_vars, label>>

\* CommandReceiver, SELECT_ACTION: end_session, then the selection changes
select_action(action) ==
    /\ uiPc = "idle"
    /\ LET r == end_session(data)
       IN  IF r.panic
           THEN data' = r.data /\ uiPc' = "panicked"
           ELSE /\ data' = [r.data EXCEPT !.selected_action = <<action>>]
                /\ UNCHANGED uiPc
    /\ UNCHANGED <<controller_vars, label>>

\* CommandReceiver, SELECT_SUBJECT: end_session, then the selection changes
select_subject(subject) ==
    /\ uiPc = "idle"
    /\ LET r == end_session(data)
       IN  IF r.panic
           THEN data' = r.data /\ uiPc' = "panicked"
           ELSE /\ data' = [r.data EXCEPT !.selected_subject = <<subject>>]
                /\ UNCHANGED uiPc
    /\ UNCHANGED <<controller_vars, label>>

\* the Ticker (not among the sources): while an interval is active its
\* duration grows with the wall clock
session_tick ==
    /\ uiPc = "idle"
    /\ data.active # <<>>
    /\ \E step \in TickSteps :
        /\ data.active[1].duration + step <= from_secs(MaxSessionSecs)
        /\ data' = [data EXCEPT !.active[1].duration = @ + step]
    /\ UNCHANGED <<uiPc, controller_vars, label>>

\* read_state: the default state, or a stored one with its selection
SessionInit ==
    /\ ControllerInit
    /\ label = NoLabel
    /\ \E a \in {<<>>} \cup {<<x>> : x \in ActionNames},
          b \in {<<>>} \cup {<<x>> : x \in SubjectNames} :
            data = [DefaultData EXCEPT !.selected_action = a, !.selected_subject = b]

SessionNext ==
    \/ click
    \/ \E action \in ActionNames : select_action(action)
    \/ \E subject \in SubjectNames : select_subject(subject)
    \/ session_tick

SessionSpec == SessionInit /\ [][SessionNext]_vars

\* ============================================================= SpentTime
\* state.rs: SpentTime wraps a Duration; the UI shows it through Display and
\* compares it through Data::same

\* the longest time shown, in whole seconds
MaxSpentSecs == 3700

\* the parts of a second the shown times carry, in milliseconds
SubMillis == {0, 1, 999}

SpentTimes == {from_secs(secs) + ms : secs \in 0..MaxSpentSecs, ms \in SubMillis}

\* the times a time is compared with: in the same second and in the next one
Near(a) == {from_secs(as_secs(a) + d) + ms : d \in {0, 1}, ms \in SubMillis}

\* the minutes without the wrap at the hour
minutes_unwrapped(total) == total \div 60

hours(total) == (total \div 60) \div 60
minutes(total) == (total \div 60) % 60
seconds(total) == total % 60

\* write!(f, "{}h {}m {}s", hours, minutes, seconds)
write(h, m, sec) == ToString(h) \o "h " \o ToString(m) \o "m " \o ToString(sec) \o "s"

\* Display::fmt
fmt(self) ==
    LET total == as_secs(self)
    IN  write(hours(total), minutes(total), seconds(total))

\* Data::same
same(self, other) == as_secs(self) = as_secs(other)

\* a label is drawn: format!("{}", spent_time)
draw ==
    /\ label.text = <<>>
    /\ label' = [label EXCEPT !.text = <<fmt(label.a)>>]
    /\ UNCHANGED <<uiPc, controller_vars, data>>

\* druid's change detection compares the old value with the new one
compare ==
    /\ label.same = <<>>
    /\ label' = [label EXCEPT !.same = <<same(label.a, label.b)>>]
    /\ UNCHANGED <<uiPc, controller_vars, data>>

LabelInit ==
    /\ ControllerInit
    /\ data = DefaultData
    /\ \E a \in SpentTimes : \E b \in Near(a) :
            label = [a |-> a, b |-> b, text |-> <<>>, same |-> <<>>]

LabelNext == draw \/ compare

LabelSpec == LabelInit /\ [][LabelNext]_vars

\* ================================================================= claims

\* the calls the worker made on the backend, in the order they finished
WorkerLog == SelectSeq(backendLog, LAMBDA e : e.thread = "worker")

\* the worker has received Stop
StopDequeued == done # <<>> /\ Last(done).type = "Stop"

\* the k-th received command reached the backend
Executed(k) == \E i \in DOMAIN WorkerLog : WorkerLog[i].n = k

\* the worker has finished its k-th received command
Finished(k) == k < Len(done) \/ (k = Len(done) /\ wpc \notin CallPcs)

\* call e is one that command c asks for
CallMatches(e, c) ==
    \/ c.type = "AddAction" /\ e.op = "create_action" /\ e.arg = c.name
    \/ c.type = "AddSubject" /\ e.op = "create_subject" /\ e.arg = c.name
    \/ c.type = "AddSession" /\ e.op = "add_session" /\ e.arg = c.session
    \/ c.type = "AddSession" /\ e.op = "update_time" /\ e.arg = <<c.session.topic, c.total>>

\* the events a run of backend calls leads to while the sink is open
RECURSIVE EventsOf(_)
EventsOf(log) ==
    IF log = <<>> THEN <<>>
    ELSE LET e == Head(log)
             ev == IF ~e.ok THEN <<ERROR(<<e.op, e.arg>>)>>
                   ELSE IF e.op = "create_action" THEN <<ACTION_ADDED(e.arg)>>
                   ELSE IF e.op = "create_subject" THEN <<SUBJECT_ADDED(e.arg)>>
                   ELSE <<>>
         IN  ev \o EventsOf(Tail(log))

NumStopped == Cardinality({i \in DOMAIN events : events[i].type = "STOPPED"})

\* C1: the commands the worker receives are a prefix of the commands sent, in
\* send order, none twice and none lost; the backend calls follow that order:
\* each call belongs to a received command, calls of later commands come later,
\* a command has one call, or add_session followed by update_time, and every
\* command the worker has finished, other than Stop, was called
Thm_C1_FifoOrder ==
    LET log == WorkerLog
    IN  /\ IsPrefix(done, enq)
        /\ done \o queue = enq
        /\ \A i \in DOMAIN log :
            /\ log[i].n \in 1..Len(done)
            /\ CallMatches(log[i], enq[log[i].n])
        /\ \A i, j \in DOMAIN log :
            i < j =>
                /\ log[i].n <= log[j].n
                /\ log[i].n = log[j].n =>
                    /\ j = i + 1
                    /\ log[i].op = "add_session" /\ log[i].ok
                    /\ log[j].op = "update_time"
        /\ \A k \in 1..Len(done) :
            (Finished(k) /\ done[k].type # "Stop") => \E i \in DOMAIN log : log[i].n = k

\* three different commands received and executed while the UI kept sending
Wit_C1 ==
    /\ Len(done) = 3
    /\ Len(WorkerLog) >= 3
    /\ done[1] # done[2] /\ done[2] # done[3] /\ done[1] # done[3]

\* C2: while the sink is open a failed backend call does not end the loop: the
\* events posted are exactly one ERROR per failed call and the success event
\* of every successful create_action / create_subject, in call order, followed
\* by STOPPED once the worker has exited; the loop is left only through Stop;
\* and AddAction(X) failing, AddAction(Y), Stop yields ERROR, ACTION_ADDED(Y),
\* STOPPED
Thm_C2_ErrorNonFatal ==
    sinkOpen =>
        /\ events = EventsOf(WorkerLog) \o (IF wpc = "exited" THEN <<STOPPED>> ELSE <<>>)
        /\ wpc \in {"break", "exited"} => StopDequeued
        /\ Cardinality({j \in DOMAIN events : events[j].type = "ERROR"})
             = Cardinality({i \in DOMAIN WorkerLog : ~WorkerLog[i].ok})
        /\ \A i \in DOMAIN WorkerLog :
            ~WorkerLog[i].ok =>
                \E j \in DOMAIN events :
                    events[j] = ERROR(<<WorkerLog[i].op, WorkerLog[i].arg>>)
        /\ \A X, Y \in ActionNames :
            ( /\ done = <<AddAction(X), AddAction(Y), Stop>>
              /\ Len(WorkerLog) = 2
              /\ ~WorkerLog[1].ok /\ WorkerLog[2].ok
              /\ wpc = "exited" )
            => events = <<ERROR(<<"create_action", X>>), ACTION_ADDED(Y), STOPPED>>

\* AddAction(X) failed, AddAction(Y) succeeded, Stop: the worker has exited
Wit_C2 ==
    /\ sinkOpen
    /\ wpc = "exited"
    /\ done = <<AddAction("Reading"), AddAction("Writing"), Stop>>
    /\ Len(WorkerLog) = 2
    /\ ~WorkerLog[1].ok /\ WorkerLog[2].ok
    /\ Len(events) = 3

\* C3 as stated: once Stop is received the worker makes no backend call and
\* receives no command, it only goes on to exit, and when it has exited
\* exactly one STOPPED event has been emitted
Cex_C3 ==
    /\ [][StopDequeued => /\ backendLog' = backendLog
                          /\ backend' = backend
                          /\ done' = done
                          /\ wpc' \in {"break", "exited"}]_vars
    /\ []((StopDequeued /\ wpc = "exited") => NumStopped = 1)

\* C3 amended: once Stop is received the worker makes no backend call and
\* receives no command, whatever is sent afterwards; it only goes on to exit,
\* posting STOPPED on the way if the sink is open and nothing if it is closed;
\* STOPPED is never emitted twice and not before the worker exits
Thm_C3_StopTerminal ==
    /\ [][StopDequeued => /\ backendLog' = backendLog
                          /\ backend' = backend
                          /\ done' = done
                          /\ wpc' \in {"break", "exited"}
                          /\ wpc = "exited" => (wpc' = "exited" /\ events' = events)
                          /\ (wpc = "break" /\ wpc' = "exited") =>
                                events' = IF sinkOpen THEN Append(events, STOPPED)
                                          ELSE events]_vars
    /\ [](/\ NumStopped <= 1
          /\ wpc # "exited" => NumStopped = 0
          /\ (StopDequeued /\ wpc = "exited" /\ sinkOpen) => NumStopped = 1)

\* Stop received, the worker exited and posted STOPPED, and a command sent
\* behind Stop is still in the channel
Wit_C3 ==
    /\ StopDequeued
    /\ wpc = "exited"
    /\ queue # <<>>
    /\ events # <<>> /\ Last(events) = STOPPED

\* C4 as stated: at the moment the worker receives Stop, every command sent
\* so far, other than Stop, has been executed against the backend
Cex_C4 ==
    [][(~StopDequeued /\ StopDequeued') =>
            \A k \in 1..Len(enq) : enq[k].type # "Stop" => Executed(k)]_vars

\* C4 amended: when the worker has received Stop, every command sent ahead of
\* that Stop has been received in send order and executed against the backend,
\* and no command sent behind it is ever executed
Thm_C4_NoneSkipped ==
    StopDequeued =>
        /\ \A k \in 1..(Len(done) - 1) :
            /\ done[k] = enq[k]
            /\ done[k].type # "Stop"
            /\ Executed(k)
        /\ enq[Len(done)].type = "Stop"
        /\ \A k \in (Len(done) + 1)..Len(enq) : ~Executed(k)
        /\ queue = SubSeq(enq, Len(done) + 1, Len(enq))

\* two commands executed ahead of Stop, Stop received
Wit_C4 ==
    /\ StopDequeued
    /\ Len(done) = 3
    /\ Executed(1) /\ Executed(2)

\* C5: at most one backend operation is in progress
Thm_C5_OneCallAtATime == Cardinality(InCall) <= 1

\* the UI sent two commands while a backend call of the worker is in progress
Wit_C5 ==
    /\ wpc \in CallPcs
    /\ Len(queue) = 2
    /\ uiPc = "idle"

\* C6 as stated: every backend operation, construction and setup() included,
\* is performed on the worker thread
Cex_C6 ==
    /\ \A i \in DOMAIN backendLog : backendLog[i].thread = "worker"
    /\ \A c \in InCall : c.thread = "worker"

\* C7: the events in the UI's queue are, in order, the events of the worker's
\* backend calls in call order (STOPPED last), up to the point the sink closed;
\* and AddAction(Reading), AddSubject(Math), AddSession(..), Stop with every
\* call succeeding and the sink open yields exactly ACTION_ADDED(Reading),
\* SUBJECT_ADDED(Math), STOPPED
Thm_C7_EventOrder ==
    /\ IsPrefix(events,
                EventsOf(WorkerLog) \o (IF wpc = "exited" THEN <<STOPPED>> ELSE <<>>))
    /\ ( /\ Len(done) = 4
         /\ done[1] = AddAction("Reading")
         /\ done[2] = AddSubject("Math")
         /\ done[3].type = "AddSession"
         /\ done[4] = Stop
         /\ \A i \in DOMAIN WorkerLog : WorkerLog[i].ok
         /\ sinkOpen
         /\ wpc = "exited" )
       => events = <<ACTION_ADDED("Reading"), SUBJECT_ADDED("Math"), STOPPED>>

\* the scenario has run to the end: four calls succeeded, the worker exited
Wit_C7 ==
    /\ Len(done) = 4
    /\ Len(WorkerLog) = 4
    /\ \A i \in DOMAIN WorkerLog : WorkerLog[i].ok
    /\ sinkOpen
    /\ wpc = "exited"
    /\ Len(events) = 3

\* C8: for AddSession(session, total) the worker calls add_session(session),
\* which appends the session and leaves the stored times alone, and only then
\* update_time(topic, total) with the total the command carries; a successful
\* update_time sets the topic's stored time to exactly that total, whatever
\* was stored before, leaves the other topics and the sessions alone, and
\* posts no event
Thm_C8_TotalOverwrites ==
    [][ /\ (wpc = "add_session" /\ wpc' # "add_session") =>
            LET e == Last(backendLog')
            IN  /\ e.op = "add_session" /\ e.arg = cmd.session
                /\ cmd = enq[Len(done)]
                /\ backend'.times = backend.times
                /\ e.ok => /\ backend'.sessions = Append(backend.sessions, cmd.session)
                           /\ wpc' = "update_time"
                           /\ events' = events
        /\ (wpc = "update_time" /\ wpc' # "update_time") =>
            LET e == Last(backendLog')
                topic == cmd.session.topic
            IN  /\ e.op = "update_time" /\ e.arg = <<topic, cmd.total>>
                /\ cmd = enq[Len(done)]
                /\ Last(backend.sessions) = cmd.session
                /\ backend'.sessions = backend.sessions
                /\ ~e.ok => backend' = backend
                /\ e.ok => /\ DOMAIN backend'.times = DOMAIN backend.times \cup {topic}
                           /\ backend'.times[topic] = cmd.total
                           /\ \A t \in DOMAIN backend.times \ {topic} :
                                backend'.times[t] = backend.times[t]
                           /\ events' = events
                           /\ wpc' = "recv" ]_vars

\* two sessions of one topic stored: the second total (3) replaced the first
\* (2), and no event was posted
Wit_C8 ==
    /\ Len(backend.sessions) = 2
    /\ backend.sessions[1].topic = backend.sessions[2].topic
    /\ Len(WorkerLog) = 4
    /\ WorkerLog[2].op = "update_time" /\ WorkerLog[2].ok /\ WorkerLog[2].arg[2] = 2
    /\ WorkerLog[4].op = "update_time" /\ WorkerLog[4].ok /\ WorkerLog[4].arg[2] = 3
    /\ backend.times[backend.sessions[1].topic] = 3
    /\ events = <<>>

\* C9: the AddSession command the controller sends carries the cumulative time
\* the UI time table holds for the session's topic at that moment (zero when
\* the topic has no entry) plus the session's duration
Thm_C9_TotalAtEnqueue ==
    [][enq' # enq =>
        LET c == Last(enq')
        IN  c.type = "AddSession" =>
              c.total = (IF c.session.topic \in DOMAIN time_table
                         THEN time_table[c.session.topic] ELSE 0)
                        + c.session.duration]_vars

\* one AddSession sent for a topic without an entry, one for a topic with one
Wit_C9 ==
    \E i, j \in DOMAIN enq :
        /\ enq[i].type = "AddSession" /\ enq[i].total = enq[i].session.duration
        /\ enq[j].type = "AddSession" /\ enq[j].total > enq[j].session.duration
        /\ enq[j].session.topic \in DOMAIN time_table

\* C10 as stated: when the channel is closed with the sink open and no Stop
\* received, the worker ends by leaving the loop and posting STOPPED
Cex_C10 ==
    (uiPc = "closed" /\ sinkOpen /\ ~StopDequeued /\ wpc \notin RunningPcs) =>
        /\ wpc = "exited"
        /\ NumStopped = 1

\* C10 amended: when the channel is closed with the sink open and no Stop
\* received, the worker goes on receiving and executing what is queued; it
\* ends only when the channel is empty, and then by the panic of the expect
\* on recv, with every command sent executed and no STOPPED event posted
Thm_C10_ClosedQueuePanics ==
    /\ (uiPc = "closed" /\ sinkOpen /\ ~StopDequeued /\ wpc \notin RunningPcs) =>
        /\ wpc = "panicked"
        /\ queue = <<>>
        /\ done = enq
        /\ \A k \in 1..Len(enq) : Executed(k)
        /\ NumStopped = 0
    /\ wpc = "panicked" => (sender = "None" /\ queue = <<>> /\ NumStopped = 0)

\* the controller was dropped with two commands queued; both were executed
\* before the worker ended in the panic
Wit_C10 ==
    /\ wpc = "panicked"
    /\ sinkOpen
    /\ Len(done) = 2
    /\ Executed(2)

\* C11: when a backend call fails with the sink closed, the ERROR event is not
\* posted and the worker leaves the loop at once; a worker that left the loop
\* without Stop did so with the sink closed, receives no further command,
\* makes no further backend call, posts nothing (the failed STOPPED post is
\* only logged) and goes on to the normal exit, never to a panic
Thm_C11_SinkFailureEndsLoop ==
    /\ [][(wpc \in CallPcs /\ backendLog' # backendLog
           /\ ~Last(backendLog').ok /\ ~sinkOpen) =>
                /\ wpc' = "break"
                /\ events' = events
                /\ done' = done /\ queue' = queue]_vars
    /\ [][(wpc \in {"break", "exited"} /\ ~StopDequeued) =>
                /\ ~sinkOpen
                /\ wpc' \in {"break", "exited"}
                /\ done' = done
                /\ backendLog' = backendLog /\ backend' = backend
                /\ events' = events]_vars
    /\ []((wpc \in {"break", "exited"} /\ ~StopDequeued) => NumStopped = 0)

\* a call failed with the sink closed: the worker exited with a command still
\* queued, no ERROR and no STOPPED posted
Wit_C11 ==
    /\ wpc = "exited"
    /\ ~StopDequeued
    /\ WorkerLog # <<>> /\ ~Last(WorkerLog).ok
    /\ queue # <<>>
    /\ events = <<>>

\* the startup calls that failed: Sqlite::new or setup() returned Err
StartupFailures == {i \in DOMAIN backendLog :
                        backendLog[i].thread = "ui" /\ ~backendLog[i].ok}

\* C12: when the construction of the backend or setup() fails, init panics on
\* the calling thread before the worker is spawned: there is no worker and no
\* sender, no command is enqueued or processed, the backend sees no call other
\* than the construction and at most one setup(), of which the failed call is
\* the last, and no event is posted
Thm_C12_StartupFailureAborts ==
    StartupFailures # {} =>
        /\ uiPc = "panicked"
        /\ wpc = "none" /\ sender = "None"
        /\ enq = <<>> /\ done = <<>> /\ queue = <<>>
        /\ events = <<>>
        /\ backend = EmptyBackend
        /\ \A i \in DOMAIN backendLog : backendLog[i].op \in {"new", "setup"}
        /\ Cardinality({i \in DOMAIN backendLog : backendLog[i].op = "setup"}) <= 1
        /\ StartupFailures = {Len(backendLog)}

\* setup() failed after the backend was constructed
Wit_C12 ==
    /\ Len(backendLog) = 2
    /\ backendLog[1].op = "new" /\ backendLog[1].ok
    /\ backendLog[2].op = "setup" /\ ~backendLog[2].ok
    /\ uiPc = "panicked"

\* the backends constructed, and the worker threads that ended
NumBackends == Cardinality({i \in DOMAIN backendLog : backendLog[i].op = "new"})
WorkerEnded == wpc \in {"exited", "panicked"}

\* C13 as stated: at most one backend and one worker per controller, and the
\* worker that was created is torn down: it ends in every run in which the UI
\* stays up (its thread does not panic and the sink stays open)
Cex_C13 ==
    /\ [](NumBackends <= 1)
    /\ [](wpc # "none" =>
            <>(WorkerEnded \/ ~sinkOpen \/ uiPc \in {"panicked", "send_panicked"}))

\* C13: the backend, the channel and the worker are created at most once per
\* controller: init constructs only while no sender exists, a WidgetAdded that
\* arrives while a sender exists fails the assertion and creates nothing, no
\* backend call is made outside the worker once the sender exists, and the
\* worker is torn down at most once: a worker that ended stays ended
Thm_C13_CreatedOnce ==
    /\ [](NumBackends <= 1)
    /\ [][(wpc' # wpc /\ wpc' = "recv" /\ wpc \notin CallPcs) =>
                (wpc = "none" /\ sender = "None" /\ sender' = "Some")]_vars
    /\ [][(sender = "Some" /\ backendLog' # backendLog) =>
                Last(backendLog').thread = "worker"]_vars
    /\ [][wpc # "none" => wpc' # "none"]_vars
    /\ [][WorkerEnded => wpc' = wpc]_vars

\* a second WidgetAdded arrived after the worker had ended: the assertion
\* failed, and there is still one backend and the one ended worker
Wit_C13 ==
    /\ uiPc = "panicked"
    /\ sender = "Some"
    /\ wpc = "exited"
    /\ NumBackends = 1

\* a Stop command was enqueued
StopEnqueued == \E i \in DOMAIN enq : enq[i].type = "Stop"

\* C14: under fair scheduling of the worker, with every backend call returning,
\* once Stop is enqueued the worker, unless the sink is closed, eventually
\* dequeues Stop, posts STOPPED as its last event and exits
Thm_C14_StopShutsDown ==
    [](StopEnqueued =>
            <>(\/ ~sinkOpen
               \/ /\ StopDequeued
                  /\ wpc = "exited"
                  /\ NumStopped = 1
                  /\ Last(events) = STOPPED))

\* Stop was enqueued behind two commands and the worker exited after STOPPED
Wit_C14 ==
    /\ Len(done) = 3
    /\ StopDequeued
    /\ wpc = "exited"
    /\ sinkOpen
    /\ Last(events) = STOPPED

\* the positions in enqueue order of the AddSession commands for a topic whose
\* add_session and update_time both succeeded
Stored(t) ==
    {k \in DOMAIN enq :
        /\ enq[k].type = "AddSession"
        /\ enq[k].session.topic = t
        /\ \E i \in DOMAIN WorkerLog :
                /\ WorkerLog[i].n = k
                /\ WorkerLog[i].op = "update_time"
                /\ WorkerLog[i].ok
        /\ \E i \in DOMAIN WorkerLog :
                /\ WorkerLog[i].n = k
                /\ WorkerLog[i].op = "add_session"
                /\ WorkerLog[i].ok}

MaxOf(S) == CHOOSE k \in S : \A j \in S : j <= k

SessionsFor(t) ==
    {k \in DOMAIN enq : enq[k].type = "AddSession" /\ enq[k].session.topic = t}

MinOf(S) == CHOOSE k \in S : \A j \in S : k <= j

RECURSIVE SumDurations(_)
SumDurations(S) ==
    IF S = {} THEN 0
    ELSE LET k == MinOf(S) IN enq[k].session.duration + SumDurations(S \ {k})

\* C16: when every add-session request for a topic has been processed with
\* both backend calls succeeding, the stored time of the topic is the UI's
\* cumulative time of the topic at the first of the requests plus the sum of
\* the durations of all of them
Cex_C16 ==
    \A t \in Topics :
        LET S == SessionsFor(t)
        IN  (S # {} /\ Stored(t) = S /\ Len(done) = Len(enq) /\ wpc = "recv") =>
                LET first == enq[MinOf(S)]
                    before == first.total - first.session.duration
                IN  backend.times[t] = before + SumDurations(S)

\* C17 as stated: no request ever fails on the UI thread
Cex_C17 == uiPc # "send_panicked"

\* C17: a request handled by the controller never blocks; while the worker
\* thread lives (in its loop, in a backend call, or past the loop on its way
\* out after Stop) the send succeeds whatever the queue holds: the command is
\* appended and the UI stays idle; once the worker thread has ended the send
\* fails, nothing is enqueued and the unwrap panics on the UI thread
Thm_C17_SendWhileWorkerLives ==
    [][(enq' # enq \/ (uiPc' # uiPc /\ uiPc' = "send_panicked")) =>
            /\ uiPc = "idle" /\ sender = "Some"
            /\ IF WorkerEnded
               THEN /\ uiPc' = "send_panicked"
                    /\ enq' = enq /\ queue' = queue
               ELSE /\ uiPc' = "idle"
                    /\ Len(enq') = Len(enq) + 1
                    /\ enq' = Append(enq, Last(enq'))
                    /\ queue' = Append(queue, Last(enq'))]_vars

\* a request arrived after the worker had processed Stop and exited
Wit_C17 ==
    /\ uiPc = "send_panicked"
    /\ StopDequeued
    /\ wpc = "exited"
    /\ Last(events) = STOPPED
    /\ queue = <<>>

\* a step in which a backend call of AddSession returned an error
SessionCallFailed ==
    /\ wpc \in {"add_session", "update_time"}
    /\ backendLog' # backendLog
    /\ ~Last(backendLog').ok

\* the two calls of AddSession, one after the other: update_time is called
\* only from a successful add_session; a failed add_session leaves the store
\* as it was and is not followed by update_time; a failed update_time leaves
\* the appended session and the stored times as they were
SessionNotAtomic ==
    /\ (wpc # "update_time" /\ wpc' = "update_time") =>
            /\ wpc = "add_session"
            /\ Last(backendLog').op = "add_session" /\ Last(backendLog').ok
            /\ backend'.sessions = Append(backend.sessions, cmd.session)
            /\ backend'.times = backend.times
    /\ (SessionCallFailed /\ wpc = "add_session") =>
            /\ backend' = backend
            /\ wpc' # "update_time"
    /\ (SessionCallFailed /\ wpc = "update_time") =>
            /\ backend' = backend
            /\ Last(backend'.sessions) = cmd.session

\* C20 as stated: the calls are not atomic, and after either failure exactly
\* one ERROR event is posted and the loop continues
Cex_C20 ==
    [][ /\ SessionNotAtomic
        /\ SessionCallFailed =>
            /\ events' = Append(events, ERROR(ErrMsg(wpc, Last(backendLog').arg)))
            /\ wpc' = "recv" ]_vars

\* C20: AddSession is not atomic: update_time is called only after add_session
\* succeeded; a failed add_session leaves the store unchanged and update_time
\* uncalled; a failed update_time leaves the session appended and the stored
\* total unchanged; after either failure, with the sink open exactly one ERROR
\* event is posted and the loop continues, and with the sink closed no event
\* is posted and the loop ends
Thm_C20_SessionNotAtomic ==
    [][ /\ SessionNotAtomic
        /\ SessionCallFailed =>
            IF sinkOpen
            THEN /\ events' = Append(events, ERROR(ErrMsg(wpc, Last(backendLog').arg)))
                 /\ wpc' = "recv"
            ELSE /\ events' = events
                 /\ wpc' = "break" ]_vars

\* update_time failed after add_session had appended the session: the session
\* is stored, the topic has no stored time, one ERROR was posted and the
\* worker is back at recv
Wit_C20 ==
    /\ wpc = "recv"
    /\ Len(done) = 1 /\ done[1].type = "AddSession"
    /\ backend.sessions = <<done[1].session>>
    /\ backend.times = <<>>
    /\ Len(events) = 1 /\ events[1].type = "ERROR"
    /\ events[1].payload[1] = "update_time"

\* a step that closes the active interval
IntervalClosed == data.active # <<>> /\ data'.active = <<>>

\* C18 as stated: each time an active interval is closed, whatever its
\* duration and the selection, exactly one session for it is appended to the
\* history
Cex_C18 ==
    [][IntervalClosed =>
            /\ Len(data'.history) = Len(data.history) + 1
            /\ Last(data'.history).duration = data.active[1].duration]_vars

\* C18: closing the active interval, by the button or by a selection, clears
\* it; a session is appended, exactly one and with the interval's duration
\* and the selection of the moment, exactly when the interval is longer than
\* 30 seconds and an action and a subject are selected; an interval of 30
\* seconds or less leaves the history as it was; a longer one with a selection
\* missing panics with the history as it was; nothing else changes the history
Thm_C18_SessionWhenLongEnough ==
    [][ /\ IntervalClosed =>
            LET d == data.active[1].duration
            IN  IF d > MinSessionSecs * 1000
                THEN IF data.selected_action # <<>> /\ data.selected_subject # <<>>
                     THEN /\ data'.history =
                                Append(data.history,
                                       HistorySession(data.selected_action[1],
                                                      data.selected_subject[1], d))
                          /\ uiPc' = "idle"
                     ELSE /\ data'.history = data.history
                          /\ uiPc' = "panicked"
                ELSE /\ data'.history = data.history
                     /\ uiPc' = "idle"
        /\ ~IntervalClosed => data'.history = data.history ]_vars

\* an interval of 30.5 seconds was closed with a selection and recorded
Wit_C18 ==
    /\ data.active = <<>>
    /\ Len(data.history) = 1
    /\ data.history[1].duration = 30500
    /\ uiPc = "idle"

\* C19: the text shown for a SpentTime is "{h}h {m}m {s}s" with minutes and
\* seconds below 60 and h*3600 + m*60 + s the whole seconds of the duration;
\* two values are the same exactly when their whole seconds are equal,
\* whatever their parts of a second
Thm_C19_RenderAndSame ==
    /\ label.text # <<>> =>
        \E h \in 0..(label.a \div 3600000), m \in 0..59 :
            LET t == (label.a - (label.a % 1000)) \div 1000
                sec == t - (h * 3600) - (m * 60)
            IN  /\ sec \in 0..59
                /\ (h * 3600) + (m * 60) + sec = t
                /\ label.text[1] = write(h, m, sec)
    /\ label.same # <<>> =>
        (label.same[1] <=> (label.a - (label.a % 1000) = label.b - (label.b % 1000)))

\* 3700.999 seconds are shown as 1h 1m 40s and are the same as 3700 seconds
Wit_C19 ==
    /\ label.a = 3700999
    /\ label.b = 3700000
    /\ label.text = <<"1h 1m 40s">>
    /\ label.same = <<TRUE>>

\* a step in which the worker stops looping
LoopLeft == wpc \in RunningPcs /\ wpc' \notin RunningPcs

\* past the loop the worker makes one attempt to post STOPPED, as the step
\* that ends the thread: between the break and the attempt, and after it, no
\* backend call is made, no command is received and no other event is posted;
\* receiving Stop itself makes no backend call and posts nothing
StoppedAttempt ==
    /\ wpc = "break" =>
            /\ backendLog' = backendLog /\ backend' = backend /\ done' = done
            /\ \/ wpc' = "break" /\ events' = events
               \/ /\ wpc' = "exited"
                  /\ events' = IF sinkOpen THEN Append(events, STOPPED) ELSE events
    /\ wpc = "exited" =>
            /\ wpc' = "exited"
            /\ events' = events
            /\ backendLog' = backendLog /\ backend' = backend /\ done' = done
    /\ (done' # done /\ Last(done').type = "Stop") =>
            /\ wpc' = "break"
            /\ backendLog' = backendLog /\ backend' = backend
            /\ events' = events

\* C21 as stated: every way out of the worker loop leads to the one attempt
\* to post STOPPED
Cex_C21 ==
    [][ /\ StoppedAttempt
        /\ LoopLeft => wpc' = "break" ]_vars

\* C21: when the loop is left by break, which happens only on receiving Stop
\* or on a post that failed with the sink closed, the worker attempts to post
\* STOPPED exactly once, after its last backend call, with no backend call and
\* no other event after the attempt, and receiving Stop makes no backend
\* call; when recv fails on the closed, empty channel the loop is left by the
\* panic of the expect, and STOPPED is never attempted
Thm_C21_StoppedAttemptOnBreak ==
    [][ /\ StoppedAttempt
        /\ LoopLeft =>
            IF wpc = "recv" /\ queue = <<>>
            THEN /\ sender = "None"
                 /\ wpc' = "panicked"
                 /\ events' = events
            ELSE /\ wpc' = "break"
                 /\ (done' # done /\ Last(done').type = "Stop") \/ ~sinkOpen
        /\ wpc = "panicked" =>
            /\ wpc' = "panicked"
            /\ events' = events
            /\ backendLog' = backendLog /\ backend' = backend /\ done' = done ]_vars

\* Stop was received behind one executed command; the attempt posted STOPPED
\* as the last event, after the last backend call, and the UI is still up
Wit_C21 ==
    /\ wpc = "exited"
    /\ Len(done) = 2 /\ StopDequeued
    /\ WorkerLog # <<>> /\ Last(WorkerLog).n = 1
    /\ NumStopped = 1 /\ Last(events) = STOPPED
    /\ uiPc = "idle" /\ sinkOpen

\* a step in which a backend call of the worker returned
CallReturned == wpc \in CallPcs /\ backendLog' # backendLog

\* C22: with the sink closed the worker goes on executing AddSession commands
\* whose calls succeed, posting nothing; a create_action or create_subject
\* that returns with the sink closed ends the loop with no event posted, and
\* when the call succeeded the action or subject is persisted by then; a call
\* that failed ends the loop as well; past the loop no backend call is made,
\* so at most one AddAction or AddSubject is executed with the sink closed
Thm_C22_ClosedSinkEndsAtFirstPost ==
    [][ /\ (~sinkOpen /\ CallReturned /\ wpc \in {"add_session", "update_time"}
            /\ Last(backendLog').ok) =>
                /\ events' = events
                /\ wpc' = IF wpc = "add_session" THEN "update_time" ELSE "recv"
                /\ wpc = "add_session" =>
                        backend'.sessions = Append(backend.sessions, cmd.session)
                /\ wpc = "update_time" =>
                        backend'.times[cmd.session.topic] = cmd.total
        /\ (~sinkOpen /\ CallReturned /\ wpc \in {"create_action", "create_subject"}) =>
                /\ events' = events
                /\ wpc' = "break"
                /\ Last(backendLog').ok =>
                        IF wpc = "create_action"
                        THEN cmd.name \in backend'.actions
                        ELSE cmd.name \in backend'.subjects
        /\ (~sinkOpen /\ CallReturned /\ ~Last(backendLog').ok) => wpc' = "break"
        /\ (~sinkOpen /\ wpc = "recv" /\ wpc' \in CallPcs) =>
                /\ events' = events
                /\ cmd' = Head(queue)
        /\ wpc \in {"break", "exited"} =>
                /\ backendLog' = backendLog /\ backend' = backend
                /\ wpc' \in {"break", "exited"} ]_vars

\* the sink is closed and no event was ever posted: an AddSession was executed
\* and stored, the AddAction behind it created its action and ended the loop,
\* and the command behind that one was never received
Wit_C22 ==
    /\ ~sinkOpen /\ events = <<>>
    /\ wpc = "exited"
    /\ Len(done) = 2 /\ done[1].type = "AddSession" /\ done[2].type = "AddAction"
    /\ done[1].session.topic \in DOMAIN backend.times
    /\ done[2].name \in backend.actions
    /\ Last(WorkerLog).ok
    /\ queue # <<>>

====
